---- MODULE Spec2Model ----
(***************************************************************************)
(* A model of nextcord/sink.py: the voice-recording Sink, its per-user     *)
(* AudioData buffers, the admission and size filters of FiltersMixin and   *)
(* the one-shot _Scheduler that stops listening after a time quota.        *)
(*                                                                         *)
(* Payloads are modelled by their length in bytes, a file by the sequence  *)
(* of payload lengths written to it, a file name by the sequence of its    *)
(* dot-separated components (so that split('.')[0] is Head).               *)
(***************************************************************************)
EXTENDS Integers, Sequences, FiniteSets, TLC

\* ---------------------------------------------------------------- bounds

\* The number of Sink.write calls of one run without a time filter.
MaxFrames == 3
\* The number of Sink.write calls of one run with a time filter.
MaxSchedFrames == 1
\* The last instant of the wall clock.
MaxTime == 3
\* The number of calls of vc.stop_listening by the scheduler: the last of them
\* does not fail with a recoverable error.
MaxStopCalls == 2

\* The number of Sink.write calls of one run with destroy and write failures.
MaxEnvFrames == 2
\* The number of AudioData.write calls of one run of the two threads.
MaxRaceFrames == 2

\* ------------------------------------------------------ program constants

\* The frame size Sink.write adds to the current size in the max_size test.
FrameBytes == 3840

\* The user ids the transport resolves frames to.
Users == {"A", "B"}

\* The payload lengths of the frames: a short frame, a standard frame and a
\* long one.
Payloads == {FrameBytes \div 2, FrameBytes, FrameBytes + FrameBytes \div 2}

\* The values of the users filter: no restriction, or the single user A.
UserFilters == {{}, {"A"}}

\* The values of the max_size filter: 0 (no limit), half a frame, one or two
\* frames.
SizeFilters == {0, FrameBytes \div 2, FrameBytes, 2 * FrameBytes}

\* The values of a time filter that is set: one or two seconds.
TimeFilters == {1, 2}

\* The encodings named by the Sink docstring.
Encodings == {"pcm", "wav", "mp3"}

\* What the ffmpeg subprocess of format_audio can do: run and convert, run and
\* exit with an error, be missing (FileNotFoundError), fail to spawn
\* (SubprocessError).
FfmpegOutcomes == {"ok", "exit_error", "not_found", "spawn_error"}

\* The values of sys.platform the module tells apart.
Platforms == {"posix", "win32"}

\* What a write of the operating system to an open file does: it writes the
\* bytes, or fails with an OSError (no space left, quota, input/output error).
IoOutcomes == {"ok", "oserror"}

\* The exceptions of the model. The three ClientException messages of
\* AudioData and Sink.format_audio are kept apart.
AlreadyFinished == "ClientException: This AudioData is already finished writing."
StillWritingExc == "ClientException: This AudioData is still writing."
StillListening == "ClientException: Audio may only be formatted after listening is finished."
FfmpegNotFound == "ClientException: ffmpeg was not found."
PopenFailed == "ClientException: Popen failed"
AttributeError == "AttributeError"
FileNotFoundError == "FileNotFoundError"
OSError == "OSError"
NoExc == "None"

ClientExceptions ==
    {AlreadyFinished, StillWritingExc, StillListening, FfmpegNotFound, PopenFailed}

\* ------------------------------------------------------------------ state

VARIABLES
    filtered_users,  \* FiltersMixin.filtered_users
    seconds,         \* FiltersMixin.seconds
    max_size,        \* FiltersMixin.max_size
    encoding,        \* Sink.encoding
    finished,        \* FiltersMixin.finished
    vc,              \* Sink.vc: "None" until Sink.init binds the voice client
    listening,       \* vc.listening, the transport's flag
    audio_data,      \* Sink.audio_data: user -> AudioData
    audio_keys,      \* the insertion order of the dict Sink.audio_data
    fs,              \* the files under Sink.file_path: name -> content
    unfiltered,      \* the audio_data, keys and files of a sink with users = []
                     \* that is given the same Sink.write calls
    frames_left,     \* the number of frames the transport still delivers
    last,            \* the last call: operation, arguments, exception raised
    secondsfiler,    \* FiltersMixin.secondsfiler: MISSING or the _Scheduler
    now,             \* the wall clock, datetime.now(timezone.utc)
    stop_calls,      \* the scheduler's invocations of vc.stop_listening
    stop_returns,    \* those of them that returned without an exception
    stop_raised,     \* those of them that raised a non-recoverable exception
    platform,        \* sys.platform: "posix" or "win32"
    tempdir,         \* whether the directory Sink.file_path exists
    disk_full,       \* whether a write to a file raises OSError
    writer,          \* a thread inside AudioData.write of the buffer of A
    cleaner          \* a thread inside AudioData.cleanup of the buffer of A

vars == <<filtered_users, seconds, max_size, encoding, finished, vc,
          listening, audio_data, audio_keys, fs, unfiltered, frames_left, last,
          secondsfiler, now, stop_calls, stop_returns, stop_raised, platform,
          tempdir, disk_full, writer, cleaner>>

\* The environment of the sink and the threads inside one AudioData.
others == <<platform, tempdir, disk_full, writer, cleaner>>

config == <<filtered_users, seconds, max_size, encoding>>

\* ------------------------------------------------------------- file names

\* os.path.join(self.file_path, f'{ssrc}-{timestamp}.pcm'): the timestamp is a
\* float, so the name has three dot-separated components.
PcmName(user) == <<user, "frac", "pcm">>

\* audio.file.split('.')[0] + '.' + ext, and AudioData.on_format's
\* name.split('.')[0] + f'.{encoding.value}'.
WithExtension(name, ext) == <<Head(name), ext>>

\* --------------------------------------------------------------- AudioData

\* AudioData.__init__: open(file, 'ab') creates the file when it is missing.
\* self.file is a handle (is_path is FALSE) until cleanup replaces it by the
\* path string.
AudioData_init(fsys, name) ==
    [self |-> [file |-> [closed |-> FALSE, is_path |-> FALSE, name |-> name],
               finished |-> FALSE,
               size |-> 0],
     fs |-> IF name \in DOMAIN fsys
            THEN fsys
            ELSE [n \in DOMAIN fsys \cup {name} |->
                    IF n = name THEN [fmt |-> "pcm", frames |-> <<>>] ELSE fsys[n]]]

\* The try statement of AudioData.write: self._size += self.file.write(data).
\* A str has no write; the ValueError of a write to a closed handle is
\* swallowed; an OSError of the operating system is not caught, and leaves the
\* size and the file as they were. The handle is modelled as unbuffered.
AudioData_file_write(self, fsys, data, io) ==
    IF self.file.is_path
    THEN [self |-> self, fs |-> fsys, exc |-> AttributeError]
    ELSE IF self.file.closed
    THEN [self |-> self, fs |-> fsys, exc |-> NoExc]
    ELSE IF io = "oserror"
    THEN [self |-> self, fs |-> fsys, exc |-> OSError]
    ELSE IF self.file.name \notin DOMAIN fsys
    THEN \* the file was unlinked under the open handle: the write succeeds
         [self |-> [self EXCEPT !.size = @ + data], fs |-> fsys, exc |-> NoExc]
    ELSE [self |-> [self EXCEPT !.size = @ + data],
          fs |-> [fsys EXCEPT ![self.file.name].frames = Append(@, data)],
          exc |-> NoExc]

\* AudioData.write without the test of self.finished.
AudioData_write_unchecked(self, fsys, data, io) ==
    AudioData_file_write(self, fsys, data, io)

\* AudioData.write counting a standard frame instead of the bytes written.
AudioData_write_counts_frame(self, fsys, data, io) ==
    IF self.finished
    THEN [self |-> self, fs |-> fsys, exc |-> AlreadyFinished]
    ELSE IF self.file.closed \/ self.file.is_path \/ io = "oserror"
    THEN AudioData_file_write(self, fsys, data, io)
    ELSE [self |-> [self EXCEPT !.size = @ + FrameBytes],
          fs |-> [fsys EXCEPT ![self.file.name].frames = Append(@, data)],
          exc |-> NoExc]

\* AudioData.write: the test of self.finished, then the try statement.
AudioData_write(self, fsys, data, io) ==
    IF self.finished
    THEN [self |-> self, fs |-> fsys, exc |-> AlreadyFinished]
    ELSE AudioData_file_write(self, fsys, data, io)

\* self.file.close() of AudioData.cleanup.
AudioData_close(self) == [self EXCEPT !.file.closed = TRUE]

\* self.file = os.path.join(self.dir_path, self.file.name) of AudioData.cleanup.
AudioData_keep_path(self) == [self EXCEPT !.file.is_path = TRUE]

\* self.finished = True of AudioData.cleanup.
AudioData_set_finished(self) == [self EXCEPT !.finished = TRUE]

\* AudioData.cleanup without the test of self.finished.
AudioData_cleanup_unchecked(self) ==
    [self |-> AudioData_set_finished(AudioData_keep_path(AudioData_close(self))),
     exc |-> NoExc]

\* AudioData.cleanup: close the handle, keep the path, set finished.
AudioData_cleanup(self) ==
    IF self.finished
    THEN [self |-> self, exc |-> AlreadyFinished]
    ELSE [self |-> AudioData_set_finished(AudioData_keep_path(AudioData_close(self))),
          exc |-> NoExc]

\* AudioData.on_format: rename to the extension of the encoding.
AudioData_on_format(self, enc) ==
    IF ~self.finished
    THEN [self |-> self, exc |-> StillWritingExc]
    ELSE [self |-> [self EXCEPT !.file.name = WithExtension(@, enc)],
          exc |-> NoExc]

\* AudioData.__len__
AudioData_len(self) == self.size

\* ------------------------------------------------------------ FiltersMixin

\* The users filter read as a list of users to ignore.
filter_ignoring(users, user) == users = {} \/ user \notin users

\* The test of FiltersMixin.filter_decorator._filter.
filter_decorator(users, user) == users = {} \/ user \in users

\* -------------------------------------------------------------------- Sink

\* The size test of Sink.write.
SizeAllows(maxsz, file) == maxsz = 0 \/ maxsz >= AudioData_len(file) + FrameBytes

\* Sink.write under the filter decorator, on the sink state
\* s = [audio_data, audio_keys, fs] with the users filter `users`; `dir` tells
\* whether the directory of the sink exists, `io` is what a write of the
\* operating system does. AudioData(file) raises in a missing directory, before
\* the buffer is put into audio_data.
Sink_write(s, users, maxsz, bound, dir, io, data, user) ==
    IF ~filter_decorator(users, user)
    THEN s @@ [exc |-> NoExc]
    ELSE IF user \notin DOMAIN s.audio_data /\ ~bound
    THEN s @@ [exc |-> AttributeError]
    ELSE IF user \notin DOMAIN s.audio_data /\ ~dir
    THEN s @@ [exc |-> FileNotFoundError]
    ELSE
      LET made == AudioData_init(s.fs, PcmName(user))
          ad1 == IF user \in DOMAIN s.audio_data
                 THEN s.audio_data
                 ELSE [u \in DOMAIN s.audio_data \cup {user} |->
                         IF u = user THEN made.self ELSE s.audio_data[u]]
          keys1 == IF user \in DOMAIN s.audio_data
                   THEN s.audio_keys
                   ELSE Append(s.audio_keys, user)
          fs1 == IF user \in DOMAIN s.audio_data THEN s.fs ELSE made.fs
          file == ad1[user]
          w == AudioData_write(file, fs1, data, io)
      IN IF SizeAllows(maxsz, file)
         THEN [audio_data |-> [ad1 EXCEPT ![user] = w.self],
               audio_keys |-> keys1,
               fs |-> w.fs,
               exc |-> w.exc]
         ELSE [audio_data |-> ad1, audio_keys |-> keys1, fs |-> fs1,
               exc |-> NoExc]

\* Sink.format_audio after its test of vc.listening: the conversion of one
\* AudioData to the encoding, the removal of the pcm file and the renaming.
convert_audio(audio, fsys, enc, ffmpeg) ==
    LET new_file == WithExtension(audio.file.name, enc)
        raw == audio.file.name
        Remove(f, n) == [m \in DOMAIN f \ {n} |-> f[m]]
        Put(f, n, c) == [m \in DOMAIN f \cup {n} |-> IF m = n THEN c ELSE f[m]]
        Finish(f) ==
            \* os.remove(audio.file); audio.on_format(self.encoding)
            IF raw \notin DOMAIN f
            THEN [audio |-> audio, fs |-> f, exc |-> FileNotFoundError]
            ELSE LET r == AudioData_on_format(audio, enc)
                 IN [audio |-> r.self, fs |-> Remove(f, raw), exc |-> r.exc]
    IN IF enc = "pcm"
       THEN [audio |-> audio, fs |-> fsys, exc |-> NoExc]
       ELSE IF enc = "wav"
       THEN IF raw \notin DOMAIN fsys
            THEN [audio |-> audio, fs |-> fsys, exc |-> FileNotFoundError]
            ELSE Finish(Put(fsys, new_file,
                            [fmt |-> "wav", frames |-> fsys[raw].frames]))
       ELSE LET cleared == Remove(fsys, new_file)
            IN CASE ffmpeg = "not_found" ->
                      [audio |-> audio, fs |-> cleared, exc |-> FfmpegNotFound]
                 [] ffmpeg = "spawn_error" ->
                      [audio |-> audio, fs |-> cleared, exc |-> PopenFailed]
                 [] ffmpeg = "exit_error" -> Finish(cleared)
                 [] OTHER ->
                      IF raw \notin DOMAIN cleared
                      THEN Finish(cleared)
                      ELSE Finish(Put(cleared, new_file,
                                      [fmt |-> enc, frames |-> cleared[raw].frames]))

\* Sink.format_audio without the test of vc.listening.
format_audio_unchecked(audio, fsys, enc, isListening, ffmpeg) ==
    convert_audio(audio, fsys, enc, ffmpeg)

\* Sink.format_audio on one AudioData.
format_audio(audio, fsys, enc, isListening, ffmpeg) ==
    IF isListening
    THEN [audio |-> audio, fs |-> fsys, exc |-> StillListening]
    ELSE convert_audio(audio, fsys, enc, ffmpeg)

\* The loop of Sink.cleanup over self.audio_data.values(), from the i-th
\* buffer on: the first exception ends it.
RECURSIVE cleanup_loop(_, _, _, _, _, _, _)
cleanup_loop(i, keys, ad, fsys, enc, isListening, ffmpeg) ==
    IF i > Len(keys)
    THEN [audio_data |-> ad, fs |-> fsys, exc |-> NoExc]
    ELSE LET u == keys[i]
             c == AudioData_cleanup(ad[u])
             f == format_audio(c.self, fsys, enc, isListening, ffmpeg[u])
         IN IF c.exc # NoExc
            THEN [audio_data |-> ad, fs |-> fsys, exc |-> c.exc]
            ELSE IF f.exc # NoExc
            THEN [audio_data |-> [ad EXCEPT ![u] = f.audio], fs |-> f.fs,
                  exc |-> f.exc]
            ELSE cleanup_loop(i + 1, keys, [ad EXCEPT ![u] = f.audio], f.fs,
                              enc, isListening, ffmpeg)

\* Sink.destroy: shutil.rmtree(self.file_path, ignore_errors=True). Every error
\* is ignored: a missing directory, and on win32 the refusal to remove a file
\* that has an open handle, which then stays with the directory around it.
Sink_destroy(fsys, dir, ad, plat) ==
    LET held == {n \in DOMAIN fsys :
                   \E u \in DOMAIN ad : /\ ~ad[u].file.closed
                                         /\ ad[u].file.name = n}
        kept == IF plat = "win32" THEN held ELSE {}
    IN IF ~dir
       THEN [fs |-> fsys, tempdir |-> FALSE, exc |-> NoExc]
       ELSE [fs |-> [n \in kept |-> fsys[n]], tempdir |-> kept # {},
             exc |-> NoExc]

\* Sink.get_files
get_files == [i \in 1..Len(audio_keys) |-> audio_data[audio_keys[i]].file.name]

\* -------------------------------------------------------------- _Scheduler

\* count=1 of _Scheduler.__init__
LoopCount == 1

\* secondsfiler = MISSING
MISSING ==
    [pc |-> "MISSING", scheduledtime |-> 0, next_iteration |-> 0,
     last_iteration_failed |-> FALSE, stop_next_iteration |-> FALSE,
     current_loop |-> 0, error_calls |-> 0, after_loop_calls |-> 0]

\* _Scheduler(coro, time) followed by Loop.start(): the task is created and has
\* not run yet.
Scheduler_start(time) == [MISSING EXCEPT !.pc = "started", !.scheduledtime = time]

\* Loop._try_sleep_until(dt), of the tasks extension: whether the sleep until
\* dt has ended at time t. It ends at or after dt.
Loop_try_sleep_until(dt, t) == t >= dt

\* Loop.stop(), of the tasks extension: a graceful stop, taken up after the
\* running iteration.
Loop_stop(self) ==
    IF self.pc \in {"MISSING", "done", "failed"}
    THEN self
    ELSE [self EXCEPT !.stop_next_iteration = TRUE]

\* The finally clause of _Scheduler._loop.
Loop_finally(self, pc) ==
    [self EXCEPT !.pc = pc, !.after_loop_calls = @ + 1, !.current_loop = 0,
                 !.stop_next_iteration = FALSE]

\* The except clause treating the exception as a recoverable one.
Loop_except_retrying(self) ==
    [self EXCEPT !.pc = "backoff", !.last_iteration_failed = TRUE]

\* The clause 'except Exception' of _Scheduler._loop, then finally: the error
\* hook is called with the exception, which is raised again.
Loop_except(self) ==
    Loop_finally([self EXCEPT !.error_calls = @ + 1], "failed")

\* _Scheduler._loop up to its first sleep.
Loop_begin(self, t) ==
    [self EXCEPT !.pc = "sleep_until", !.last_iteration_failed = FALSE,
                 !.next_iteration = IF self.scheduledtime > t
                                    THEN self.scheduledtime ELSE t]

\* The top of the while loop of _Scheduler._loop, up to the call of the coro.
Loop_top(self) ==
    IF ~self.last_iteration_failed
    THEN [self EXCEPT !.next_iteration = self.scheduledtime]
    ELSE self

\* FiltersMixin.wait_and_stop without the test of self.finished.
wait_and_stop_always(isFinished) == TRUE

\* FiltersMixin.wait_and_stop: whether it calls vc.stop_listening.
wait_and_stop(isFinished) == ~isFinished

\* The else branch without the break at count.
Loop_after_uncounted(self, t) ==
    IF self.stop_next_iteration
    THEN Loop_finally(self, "done")
    ELSE [self EXCEPT !.next_iteration = IF t > @ THEN t ELSE @,
                      !.current_loop = @ + 1, !.pc = "call"]

\* The else branch of the try of _Scheduler._loop, after the sleep.
Loop_after(self, t) ==
    IF self.stop_next_iteration
    THEN Loop_finally(self, "done")
    ELSE LET s1 == [self EXCEPT !.next_iteration = IF t > @ THEN t ELSE @,
                                !.current_loop = @ + 1]
         IN IF s1.current_loop = LoopCount
            THEN Loop_finally(s1, "done")
            ELSE [s1 EXCEPT !.pc = "call"]

\* ---------------------------------------------------------------- actions

\* A thread that is in no method of the AudioData.
ThreadIdle == [pc |-> "idle", data |-> 0, exc |-> NoExc, late |-> FALSE]


\* The state after Sink.__init__(encoding=..., filters=...) without a time
\* filter: 'time' is 0, as in default_filters.
Init ==
    /\ filtered_users \in UserFilters
    /\ seconds = 0
    /\ max_size \in SizeFilters
    /\ encoding \in Encodings
    /\ finished = FALSE
    /\ vc = "None"
    /\ listening = FALSE
    /\ audio_data = [u \in {} |-> 0]
    /\ audio_keys = <<>>
    /\ fs = [n \in {} |-> 0]
    /\ unfiltered = [audio_data |-> [u \in {} |-> 0], audio_keys |-> <<>>,
                     fs |-> [n \in {} |-> 0]]
    /\ frames_left = MaxFrames
    /\ last = [op |-> "__init__", user |-> "None", data |-> 0, exc |-> NoExc]
    /\ secondsfiler = MISSING
    /\ now = 0
    /\ stop_calls = 0
    /\ stop_returns = 0
    /\ stop_raised = 0
    /\ platform = "posix"
    /\ tempdir = TRUE
    /\ disk_full = FALSE
    /\ writer = ThreadIdle
    /\ cleaner = ThreadIdle

\* vc.start_listening(sink): the transport calls Sink.init(vc) and listens.
\* One recording session per sink is modelled.
SinkInit ==
    /\ vc = "None"
    /\ vc' = "vc"
    /\ listening' = TRUE
    /\ secondsfiler' = IF seconds > 0
                       THEN Scheduler_start(now + seconds)
                       ELSE secondsfiler
    /\ last' = [op |-> "init", user |-> "None", data |-> 0, exc |-> NoExc]
    /\ UNCHANGED <<others, stop_raised, config, finished, audio_data, audio_keys, fs, unfiltered,
                   frames_left, now, stop_calls, stop_returns>>

\* Sink.write(data, user), called by the transport for every decoded frame.
SinkWrite ==
    /\ frames_left > 0
    /\ \E user \in Users, data \in Payloads :
         LET io == IF disk_full THEN "oserror" ELSE "ok"
             r == Sink_write([audio_data |-> audio_data,
                              audio_keys |-> audio_keys, fs |-> fs],
                             filtered_users, max_size, vc # "None", tempdir, io,
                             data, user)
             t == Sink_write(unfiltered, {}, max_size, vc # "None", tempdir, io,
                             data, user)
         IN /\ audio_data' = r.audio_data
            /\ audio_keys' = r.audio_keys
            /\ fs' = r.fs
            /\ unfiltered' = [audio_data |-> t.audio_data,
                              audio_keys |-> t.audio_keys, fs |-> t.fs]
            /\ last' = [op |-> "write", user |-> user, data |-> data,
                        exc |-> r.exc]
    /\ frames_left' = frames_left - 1
    /\ UNCHANGED <<others, stop_raised, config, finished, vc, listening, secondsfiler, now,
                   stop_calls, stop_returns>>

\* Sink.cleanup(): the whole method; an exception of the loop skips the stop of
\* the scheduler, and the exception of secondsfiler.stop() on MISSING is
\* swallowed.
SinkCleanup ==
    \E ffmpeg \in [DOMAIN audio_data ->
                     IF encoding \in {"pcm", "wav"} THEN {"ok"} ELSE FfmpegOutcomes] :
      LET r == cleanup_loop(1, audio_keys, audio_data, fs, encoding, listening,
                            ffmpeg)
      IN /\ finished' = TRUE
         /\ audio_data' = r.audio_data
         /\ fs' = r.fs
         /\ secondsfiler' = IF r.exc = NoExc
                            THEN Loop_stop(secondsfiler)
                            ELSE secondsfiler
         /\ last' = [op |-> "cleanup", user |-> "None", data |-> 0,
                     exc |-> r.exc]
         /\ UNCHANGED <<others, stop_raised, config, vc, listening, audio_keys, unfiltered, frames_left,
                        now, stop_calls, stop_returns>>

\* vc.stop_listening() called by the owner of the voice client.
StopListening ==
    /\ vc # "None"
    /\ listening
    /\ listening' = FALSE
    /\ UNCHANGED <<others, stop_raised, config, finished, vc, audio_data, audio_keys, fs, unfiltered,
                   frames_left, last, secondsfiler, now, stop_calls, stop_returns>>

\* The wall clock advances.
Tick ==
    /\ now < MaxTime
    /\ now' = now + 1
    /\ UNCHANGED <<others, stop_raised, config, finished, vc, listening, audio_data, audio_keys, fs,
                   unfiltered, frames_left, last, secondsfiler, stop_calls,
                   stop_returns>>

\* The task of the scheduler starts running: _loop up to its first sleep.
SchedBegin ==
    /\ secondsfiler.pc = "started"
    /\ secondsfiler' = Loop_begin(secondsfiler, now)
    /\ UNCHANGED <<others, stop_raised, config, finished, vc, listening, audio_data, audio_keys, fs,
                   unfiltered, frames_left, last, now, stop_calls, stop_returns>>

\* The sleep of the scheduler ends (_try_sleep_until, or asyncio.sleep of the
\* backoff delay) and the loop calls the coro once: wait_and_stop either calls
\* vc.stop_listening and awaits it, or returns at once.
SchedCall ==
    /\ \/ /\ secondsfiler.pc = "sleep_until"
          /\ Loop_try_sleep_until(secondsfiler.next_iteration, now)
       \/ secondsfiler.pc \in {"backoff", "call"}
    /\ LET s1 == Loop_top(secondsfiler)
       IN IF wait_and_stop(finished)
          THEN /\ secondsfiler' = [s1 EXCEPT !.pc = "await_stop"]
               /\ stop_calls' = stop_calls + 1
          ELSE /\ secondsfiler' = [s1 EXCEPT !.pc = "sleep_after",
                                             !.last_iteration_failed = FALSE]
               /\ stop_calls' = stop_calls
    /\ UNCHANGED <<others, stop_raised, config, finished, vc, listening, audio_data, audio_keys, fs,
                   unfiltered, frames_left, last, now, stop_returns>>

\* vc.stop_listening() returns to wait_and_stop.
SchedStopReturns ==
    /\ secondsfiler.pc = "await_stop"
    /\ secondsfiler' = [secondsfiler EXCEPT !.pc = "sleep_after",
                                            !.last_iteration_failed = FALSE]
    /\ listening' = FALSE
    /\ stop_returns' = stop_returns + 1
    /\ UNCHANGED <<others, stop_raised, config, finished, vc, audio_data, audio_keys, fs, unfiltered,
                   frames_left, last, now, stop_calls>>

\* vc.stop_listening() raises an exception of Loop._valid_exception: the loop
\* sleeps for backoff.delay() and calls the coro again.
SchedStopFailsRecoverable ==
    /\ secondsfiler.pc = "await_stop"
    /\ stop_calls < MaxStopCalls
    /\ secondsfiler' = [secondsfiler EXCEPT !.pc = "backoff",
                                            !.last_iteration_failed = TRUE]
    /\ UNCHANGED <<others, stop_raised, config, finished, vc, listening, audio_data, audio_keys, fs,
                   unfiltered, frames_left, last, now, stop_calls, stop_returns>>

\* vc.stop_listening() raises another exception: the error hook, then finally.
SchedStopFailsFatal ==
    /\ secondsfiler.pc = "await_stop"
    /\ secondsfiler' = Loop_except(secondsfiler)
    /\ stop_raised' = stop_raised + 1
    /\ UNCHANGED <<others, config, finished, vc, listening, audio_data, audio_keys, fs,
                   unfiltered, frames_left, last, now, stop_calls, stop_returns>>

\* The sleep after the successful call ends: stop, or count the iteration.
SchedAfter ==
    /\ secondsfiler.pc = "sleep_after"
    /\ Loop_try_sleep_until(secondsfiler.next_iteration, now)
    /\ secondsfiler' = Loop_after(secondsfiler, now)
    /\ UNCHANGED <<others, stop_raised, config, finished, vc, listening, audio_data, audio_keys, fs,
                   unfiltered, frames_left, last, now, stop_calls, stop_returns>>

Next ==
    \/ SinkInit
    \/ SinkWrite
    \/ SinkCleanup
    \/ StopListening
    \/ Tick
    \/ SchedBegin
    \/ SchedCall
    \/ SchedStopReturns
    \/ SchedStopFailsRecoverable
    \/ SchedStopFailsFatal
    \/ SchedAfter

\* A sink without a time filter: no scheduler, and the clock plays no part.
SinkNext ==
    \/ SinkInit
    \/ SinkWrite
    \/ SinkCleanup
    \/ StopListening

Spec == Init /\ [][SinkNext]_vars

\* The state after Sink.__init__ with a time filter and no other filter.
SchedInit ==
    /\ filtered_users = {}
    /\ seconds \in TimeFilters
    /\ max_size = 0
    /\ encoding \in Encodings
    /\ finished = FALSE
    /\ vc = "None"
    /\ listening = FALSE
    /\ audio_data = [u \in {} |-> 0]
    /\ audio_keys = <<>>
    /\ fs = [n \in {} |-> 0]
    /\ unfiltered = [audio_data |-> [u \in {} |-> 0], audio_keys |-> <<>>,
                     fs |-> [n \in {} |-> 0]]
    /\ frames_left = MaxSchedFrames
    /\ last = [op |-> "__init__", user |-> "None", data |-> 0, exc |-> NoExc]
    /\ secondsfiler = MISSING
    /\ now = 0
    /\ stop_calls = 0
    /\ stop_returns = 0
    /\ stop_raised = 0
    /\ platform = "posix"
    /\ tempdir = TRUE
    /\ disk_full = FALSE
    /\ writer = ThreadIdle
    /\ cleaner = ThreadIdle

SchedSpec == SchedInit /\ [][Next]_vars

\* Sink.destroy(), called by the owner of the sink.
SinkDestroy ==
    LET r == Sink_destroy(fs, tempdir, audio_data, platform)
    IN /\ fs' = r.fs
       /\ tempdir' = r.tempdir
       /\ last' = [op |-> "destroy", user |-> "None", data |-> 0, exc |-> r.exc]
       /\ unfiltered' =
            [unfiltered EXCEPT !.fs = Sink_destroy(@, tempdir,
                                                   unfiltered.audio_data,
                                                   platform).fs]
       /\ UNCHANGED <<platform, disk_full, writer, cleaner, stop_raised, config,
                      finished, vc, listening, audio_data, audio_keys,
                      frames_left, secondsfiler, now, stop_calls, stop_returns>>

\* The file system starts to fail writes, or recovers.
DiskChanges ==
    /\ disk_full' = ~disk_full
    /\ UNCHANGED <<platform, tempdir, writer, cleaner, stop_raised, config,
                   finished, vc, listening, audio_data, audio_keys, fs,
                   unfiltered, frames_left, last, secondsfiler, now, stop_calls,
                   stop_returns>>

\* The state after Sink.__init__ without filters, on either platform.
EnvInit ==
    /\ filtered_users = {}
    /\ seconds = 0
    /\ max_size = 0
    /\ encoding \in Encodings
    /\ finished = FALSE
    /\ vc = "None"
    /\ listening = FALSE
    /\ audio_data = [u \in {} |-> 0]
    /\ audio_keys = <<>>
    /\ fs = [n \in {} |-> 0]
    /\ unfiltered = [audio_data |-> [u \in {} |-> 0], audio_keys |-> <<>>,
                     fs |-> [n \in {} |-> 0]]
    /\ frames_left = MaxEnvFrames
    /\ last = [op |-> "__init__", user |-> "None", data |-> 0, exc |-> NoExc]
    /\ secondsfiler = MISSING
    /\ now = 0
    /\ stop_calls = 0
    /\ stop_returns = 0
    /\ stop_raised = 0
    /\ platform \in Platforms
    /\ tempdir = TRUE
    /\ disk_full = FALSE
    /\ writer = ThreadIdle
    /\ cleaner = ThreadIdle

\* The sink, the removal of its directory and a file system that fails.
EnvNext ==
    \/ SinkInit
    \/ SinkWrite
    \/ SinkCleanup
    \/ StopListening
    \/ SinkDestroy
    \/ DiskChanges

EnvSpec == EnvInit /\ [][EnvNext]_vars

\* A thread calls AudioData.write(data) on the buffer of A and runs the test of
\* self.finished: it raises, or goes on to the try statement. `late` records
\* whether the handle was closed when the outcome of the call was decided.
WriterCall ==
    /\ writer.pc = "idle"
    /\ frames_left > 0
    /\ frames_left' = frames_left - 1
    /\ \E data \in Payloads :
         writer' = IF audio_data["A"].finished
                   THEN [pc |-> "idle", data |-> data, exc |-> AlreadyFinished,
                         late |-> audio_data["A"].file.closed]
                   ELSE [pc |-> "file_write", data |-> data, exc |-> NoExc,
                         late |-> FALSE]
    /\ UNCHANGED <<platform, tempdir, disk_full, cleaner, stop_raised, config,
                   finished, vc, listening, audio_data, audio_keys, fs,
                   unfiltered, last, secondsfiler, now, stop_calls, stop_returns>>

\* The thread inside AudioData.write runs the try statement and returns.
WriterFileWrite ==
    /\ writer.pc = "file_write"
    /\ LET r == AudioData_file_write(audio_data["A"], fs, writer.data,
                                     IF disk_full THEN "oserror" ELSE "ok")
       IN /\ audio_data' = [audio_data EXCEPT !["A"] = r.self]
          /\ fs' = r.fs
          /\ writer' = [writer EXCEPT !.pc = "idle", !.exc = r.exc,
                                      !.late = audio_data["A"].file.closed]
    /\ UNCHANGED <<platform, tempdir, disk_full, cleaner, stop_raised, config,
                   finished, vc, listening, audio_keys, unfiltered, frames_left,
                   last, secondsfiler, now, stop_calls, stop_returns>>

\* Another thread calls AudioData.cleanup() on the buffer of A and runs the
\* test of self.finished.
CleanerCall ==
    /\ cleaner.pc = "idle"
    /\ cleaner' = IF audio_data["A"].finished
                  THEN [cleaner EXCEPT !.exc = AlreadyFinished]
                  ELSE [cleaner EXCEPT !.pc = "close", !.exc = NoExc]
    /\ UNCHANGED <<platform, tempdir, disk_full, writer, stop_raised, config,
                   finished, vc, listening, audio_data, audio_keys, fs,
                   unfiltered, frames_left, last, secondsfiler, now, stop_calls,
                   stop_returns>>

\* The thread inside AudioData.cleanup closes the handle.
CleanerClose ==
    /\ cleaner.pc = "close"
    /\ audio_data' = [audio_data EXCEPT !["A"] = AudioData_close(@)]
    /\ cleaner' = [cleaner EXCEPT !.pc = "keep_path"]
    /\ UNCHANGED <<platform, tempdir, disk_full, writer, stop_raised, config,
                   finished, vc, listening, audio_keys, fs, unfiltered,
                   frames_left, last, secondsfiler, now, stop_calls,
                   stop_returns>>

\* The thread inside AudioData.cleanup replaces the handle by the path.
CleanerKeepPath ==
    /\ cleaner.pc = "keep_path"
    /\ audio_data' = [audio_data EXCEPT !["A"] = AudioData_keep_path(@)]
    /\ cleaner' = [cleaner EXCEPT !.pc = "set_finished"]
    /\ UNCHANGED <<platform, tempdir, disk_full, writer, stop_raised, config,
                   finished, vc, listening, audio_keys, fs, unfiltered,
                   frames_left, last, secondsfiler, now, stop_calls,
                   stop_returns>>

\* The thread inside AudioData.cleanup sets self.finished and returns.
CleanerSetFinished ==
    /\ cleaner.pc = "set_finished"
    /\ audio_data' = [audio_data EXCEPT !["A"] = AudioData_set_finished(@)]
    /\ cleaner' = [cleaner EXCEPT !.pc = "idle"]
    /\ UNCHANGED <<platform, tempdir, disk_full, writer, stop_raised, config,
                   finished, vc, listening, audio_keys, fs, unfiltered,
                   frames_left, last, secondsfiler, now, stop_calls,
                   stop_returns>>

\* A sink that listens and holds the open, empty buffer of A.
RaceInit ==
    LET made == AudioData_init([n \in {} |-> 0], PcmName("A"))
        ad == [u \in {"A"} |-> made.self]
    IN /\ filtered_users = {}
       /\ seconds = 0
       /\ max_size = 0
       /\ encoding \in Encodings
       /\ finished = FALSE
       /\ vc = "vc"
       /\ listening = TRUE
       /\ audio_data = ad
       /\ audio_keys = <<"A">>
       /\ fs = made.fs
       /\ unfiltered = [audio_data |-> ad, audio_keys |-> <<"A">>,
                        fs |-> made.fs]
       /\ frames_left = MaxRaceFrames
       /\ last = [op |-> "init", user |-> "None", data |-> 0, exc |-> NoExc]
       /\ secondsfiler = MISSING
       /\ now = 0
       /\ stop_calls = 0
       /\ stop_returns = 0
       /\ stop_raised = 0
       /\ platform = "posix"
       /\ tempdir = TRUE
       /\ disk_full = FALSE
       /\ writer = ThreadIdle
       /\ cleaner = ThreadIdle

\* Two threads inside the methods of one AudioData, step by step.
RaceNext ==
    \/ WriterCall
    \/ WriterFileWrite
    \/ CleanerCall
    \/ CleanerClose
    \/ CleanerKeepPath
    \/ CleanerSetFinished

RaceSpec == RaceInit /\ [][RaceNext]_vars

\* ------------------------------------------------------------- properties

\* A step that is a call of Sink.write.
IsWriteStep == frames_left' < frames_left

\* A step that is a call of Sink.cleanup.
IsCleanupStep ==
    /\ last'.op = "cleanup"
    /\ finished'
    /\ listening' = listening
    /\ vc' = vc
    /\ frames_left' = frames_left
    /\ secondsfiler'.pc = secondsfiler.pc
    /\ now' = now

\* The sum of the payload lengths of a file.
SumLen(s) ==
    LET RECURSIVE Sum(_)
        Sum(i) == IF i = 0 THEN 0 ELSE s[i] + Sum(i - 1)
    IN Sum(Len(s))

\* The byte count of the buffer of user u, 0 when there is none.
SizeOf(ad, u) == IF u \in DOMAIN ad THEN ad[u].size ELSE 0

\* C1: once the sink is finished, a call of Sink.write writes no data and
\* creates no buffer: the buffers, their order and the files stay as they are.
C1_NoWriteOnceFinished ==
    [][(finished /\ IsWriteStep) =>
         (audio_data' = audio_data /\ audio_keys' = audio_keys /\ fs' = fs)]_vars

\* C2: AudioData.write on a buffer whose cleanup has completed raises the
\* "already finished" ClientException and changes neither the byte count nor
\* the files, for every payload.
C2_WriteAfterCleanupFails ==
    \A u \in DOMAIN audio_data : \A data \in Payloads : \A io \in IoOutcomes :
        audio_data[u].finished =>
            AudioData_write(audio_data[u], fs, data, io)
                = [self |-> audio_data[u], fs |-> fs, exc |-> AlreadyFinished]

\* C2 witness: Sink.write reached AudioData.write on a finished buffer, which
\* raised.
C2_Witness ==
    /\ last.op = "write"
    /\ last.exc = AlreadyFinished
    /\ last.user \in DOMAIN audio_data
    /\ audio_data[last.user].finished
    /\ audio_data[last.user].size > 0

C4_SizeAtMostMax ==
    max_size > 0 => \A u \in DOMAIN audio_data : audio_data[u].size <= max_size

\* C5: an admitted frame for an open buffer is written if and only if
\* max_size is 0 or the byte count plus the payload length is at most max_size.
C5_QuotaRule ==
    [][(/\ IsWriteStep
        /\ vc # "None"
        /\ filter_decorator(filtered_users, last'.user)
        /\ ~(last'.user \in DOMAIN audio_data /\ audio_data[last'.user].finished))
       => LET u == last'.user
              cur == SizeOf(audio_data, u)
          IN (SizeOf(audio_data', u) = cur + last'.data)
                <=> (max_size = 0 \/ cur + last'.data <= max_size)]_vars

\* C6: the byte count of a buffer is the sum of the payload lengths in its
\* file; a call changes the count of no buffer but that of the frame's user,
\* by the payload length or not at all, and no count ever decreases.
C6_SizeIsSumOfAppended ==
    /\ [](\A u \in DOMAIN audio_data :
            audio_data[u].file.name \in DOMAIN fs =>
                audio_data[u].size = SumLen(fs[audio_data[u].file.name].frames))
    /\ [][\A u \in DOMAIN audio_data' :
            \/ SizeOf(audio_data', u) = SizeOf(audio_data, u)
            \/ /\ IsWriteStep
               /\ u = last'.user
               /\ filter_decorator(filtered_users, u)
               /\ SizeAllows(max_size, IF u \in DOMAIN audio_data
                                       THEN audio_data[u]
                                       ELSE [size |-> 0])
               /\ SizeOf(audio_data', u) = SizeOf(audio_data, u) + last'.data]_vars

\* C6 witness: two frames of A arrived under max_size of one frame; the first
\* was appended and the second dropped.
C6_Witness ==
    /\ max_size = FrameBytes
    /\ frames_left = MaxFrames - 2
    /\ DOMAIN unfiltered.audio_data = {"A"}
    /\ "A" \in DOMAIN audio_data
    /\ audio_data["A"].size = FrameBytes
    /\ fs[PcmName("A")].frames = <<FrameBytes>>

\* C7: when a conversion fails in Sink.cleanup, every buffer of the sink is
\* finalized all the same.
C7_FailureIsolated ==
    (last.op = "cleanup" /\ last.exc \in {FfmpegNotFound, PopenFailed}) =>
        \A u \in DOMAIN audio_data : audio_data[u].finished

C9_StopsOnceAtDeadline ==
    /\ [][(vc = "None" /\ vc' = "vc") =>
            (secondsfiler'.pc = "started"
               /\ secondsfiler'.scheduledtime = now + seconds)]_vars
    /\ []((stop_calls > 0 \/ secondsfiler.pc = "await_stop") =>
            now >= secondsfiler.scheduledtime)
    /\ [](stop_returns <= 1)
    /\ [][stop_returns >= 1 => stop_calls' = stop_calls]_vars
    /\ []((secondsfiler.pc = "done" /\ ~finished) =>
            (stop_returns = 1 /\ stop_calls >= 1))

\* C9 witness: the first call of vc.stop_listening failed, the second returned
\* and the loop has ended.
C9_Witness ==
    /\ secondsfiler.pc = "done"
    /\ ~finished
    /\ stop_calls = 2
    /\ stop_returns = 1
    /\ now >= secondsfiler.scheduledtime

\* C10: after a call of Sink.cleanup on a sink whose scheduler is armed, the
\* scheduler is stopped, whether the call raised or not.
C10_CleanupStopsScheduler ==
    (last.op = "cleanup"
       /\ secondsfiler.pc \in {"started", "sleep_until", "await_stop", "backoff",
                               "call", "sleep_after"}) =>
        secondsfiler.stop_next_iteration

\* C12: with an external encoder, the pcm file of a buffer is removed and the
\* buffer renamed only when the conversion succeeded, that is when the file in
\* the target encoding exists.
C12_RawKeptUnlessConverted ==
    encoding \notin {"pcm", "wav"} =>
        \A u \in DOMAIN audio_data :
            (PcmName(u) \notin DOMAIN fs \/ audio_data[u].file.name # PcmName(u))
                => WithExtension(PcmName(u), encoding) \in DOMAIN fs

\* C13: the users filter is a list of users to ignore: no buffer belongs to a
\* user of a non-empty list, and the frame of a user outside it is written.
C13_UsersIgnored ==
    filtered_users # {} =>
        /\ \A u \in DOMAIN audio_data : u \notin filtered_users
        /\ (last.op = "write" /\ last.user \notin filtered_users
              /\ last.exc # AttributeError) =>
                last.user \in DOMAIN audio_data

\* C15: while the transport listens, the sink is not finished and no buffer
\* is finished.
C15_NoFinalizeWhileListening ==
    listening =>
        (~finished /\ \A u \in DOMAIN audio_data : ~audio_data[u].finished)

\* C19: once the sink is finished, no step adds a call of vc.stop_listening
\* by the scheduler.
C19_NoStopCallOnceFinished ==
    [][finished => stop_calls' = stop_calls]_vars

\* C19 witness: the first call failed, the sink was finished during the
\* backoff, and the retry ended the loop without a second call.
C19_Witness ==
    /\ finished
    /\ secondsfiler.pc = "done"
    /\ stop_calls = 1
    /\ stop_returns = 0

\* C20: when the first buffer of the sink is finished, Sink.cleanup raises the
\* "already finished" ClientException of that buffer and changes no buffer and
\* no file, whatever ffmpeg would do.
C20_RepeatedCleanupFails ==
    (audio_keys # <<>> /\ audio_data[audio_keys[1]].finished) =>
        \A ffmpeg \in [DOMAIN audio_data -> FfmpegOutcomes] :
            cleanup_loop(1, audio_keys, audio_data, fs, encoding, listening,
                         ffmpeg)
                = [audio_data |-> audio_data, fs |-> fs, exc |-> AlreadyFinished]

\* C20 witness: a second cleanup was rejected by the first buffer; the second
\* buffer, which the first cleanup did not reach, is still open.
C20_Witness ==
    /\ last.op = "cleanup"
    /\ last.exc = AlreadyFinished
    /\ Len(audio_keys) = 2
    /\ audio_data[audio_keys[1]].finished
    /\ ~audio_data[audio_keys[2]].finished

\* C17: a call of Sink.write that raises nothing and does not append its frame
\* (the frame was dropped by the users filter or by the size test) changes
\* neither the buffers, nor their order, nor the files, nor the list of
\* get_files.
C17_DropIsNoOp ==
    [][(/\ IsWriteStep
        /\ last'.exc = NoExc
        /\ SizeOf(audio_data', last'.user) = SizeOf(audio_data, last'.user))
       => (audio_data' = audio_data /\ audio_keys' = audio_keys /\ fs' = fs
             /\ get_files' = get_files)]_vars

\* C18: once vc.stop_listening has raised a non-recoverable exception, the
\* loop has ended as failed with one call of the error hook and one of the
\* after-loop hook, and no step changes the scheduler or calls
\* vc.stop_listening again.
C18_FatalErrorEndsLoop ==
    /\ [](stop_raised >= 1 =>
            /\ stop_raised = 1
            /\ secondsfiler.pc = "failed"
            /\ secondsfiler.error_calls = 1
            /\ secondsfiler.after_loop_calls = 1)
    /\ [](secondsfiler.error_calls = stop_raised)
    /\ [][stop_raised >= 1 =>
            (secondsfiler' = secondsfiler /\ stop_calls' = stop_calls)]_vars

\* C18 witness: the first call failed with a recoverable exception and the
\* retry raised a non-recoverable one.
C18_Witness ==
    /\ stop_raised = 1
    /\ stop_calls = 2
    /\ secondsfiler.pc = "failed"
    /\ secondsfiler.error_calls = 1

\* C11: right after Sink.destroy, which raised nothing, no file of the sink
\* and no directory is left, whatever the state of the buffers was; and
\* another destroy would raise nothing and leave the file system as it is.
C11_DestroyRemovesTree ==
    last.op = "destroy" =>
        /\ last.exc = NoExc
        /\ DOMAIN fs = {}
        /\ ~tempdir
        /\ Sink_destroy(fs, tempdir, audio_data, platform)
             = [fs |-> fs, tempdir |-> tempdir, exc |-> NoExc]

\* C14: a Sink.write that reaches the file write of an open buffer while the
\* file system fails writes raises nothing and changes no buffer and no file.
C14_WriteFailureSwallowed ==
    [][(/\ IsWriteStep
        /\ disk_full
        /\ last'.user \in DOMAIN audio_data
        /\ ~audio_data[last'.user].finished)
          => (/\ last'.exc = NoExc
              /\ audio_data' = audio_data
              /\ fs' = fs)]_vars

\* C16: with the steps of AudioData.write and AudioData.cleanup interleaved,
\* a write whose outcome is decided when the handle is already closed ends with
\* the "already finished" ClientException.
C16_LateWriteRejected ==
    (writer.pc = "idle" /\ writer.late) => writer.exc = AlreadyFinished

====
